---------------------------- MODULE Spec2Model ----------------------------
(***************************************************************************)
(* A model of the two command-line tools of the repository:               *)
(*   nanobanana.py  generate/edit CLI (pro validation, reference limits,  *)
(*                  request builder, response extractor)                  *)
(*   nbp.py         the earlier generate-only CLI                         *)
(* One behaviour is one invocation of one of the tools.  The command      *)
(* line, the environment and the answer the remote service will give are  *)
(* fixed in the initial state; file readability and the clock are chosen  *)
(* at the step that consults them.                                        *)
(*                                                                        *)
(* Assumptions of the model: the remote call returns a response, and      *)
(* writing the output file succeeds (neither is guarded by the code).     *)
(***************************************************************************)
EXTENDS Integers, Sequences, FiniteSets, TLC

VARIABLES
    prog,        \* which script runs: "nanobanana" or "nbp"
    argv,        \* the command line, as the flags given and their raw values
    env,         \* [key: an API key variable is set, remote: the service's answer]
    pc,          \* position of the run
    args,        \* << >> before parse_args returns, then <<namespace>>
    contents,    \* the request contents built so far (prompt, loaded images)
    config,      \* << >> before the config is built, then <<config>>
    requests,    \* the requests sent to the remote API, in order
    response,    \* << >> before the API answers, then <<response>>
    output_path, \* save_image's / generate_image's local output_path
    saw_parts,   \* save_image's local saw_parts
    idx,         \* number of response parts the loop has consumed
    decoded,     \* scan positions on which part.as_image() was called
    disk,        \* the files written, in order: [path, part]
    stdout,      \* lines printed to standard output
    stderr,      \* lines printed to standard error
    returned,    \* << >>, or <<path>> once save_image/generate_image returned
    status       \* << >> while running, then <<exit status>>

vars == <<prog, argv, env, pc, args, contents, config, requests, response,
          output_path, saw_parts, idx, decoded, disk, stdout, stderr,
          returned, status>>

(***************************************************************************)
(* Bounds of the model.                                                    *)
(***************************************************************************)
MaxRefs == 15      \* most reference images on a command line
MaxParts == 2      \* most parts in a response's top-level part list
MaxSilentParts == 3 \* most parts in a first candidate's list of textless parts
MaxCands == 2      \* most candidates in a response
MaxClock == 2      \* distinct values datetime.now() can take

(***************************************************************************)
(* Program constants.                                                      *)
(***************************************************************************)
MAX_REFERENCE_IMAGES == 14
FLASH_HIGH_FIDELITY_REFERENCE_HINT == 10
PRO_HIGH_FIDELITY_REFERENCE_HINT == 6

None == "<None>"          \* Python's None, for string-valued options

\* Python truthiness of an optional string: None and "" are false.
Truthy(s) == s # None /\ s # ""

\* Mutant: the level is passed on as typed.
CapitalizeOmitted(s) == s

\* str.capitalize() on the values the -t choices admit.
Capitalize(s) ==
    CASE s = "minimal" -> "Minimal"
      [] s = "high"    -> "High"
      [] OTHER         -> s

SeqUpTo(S, n) == UNION {[1..k -> S] : k \in 0..n}

RECURSIVE Flatten(_)
Flatten(ss) == IF ss = << >> THEN << >> ELSE Head(ss) \o Flatten(Tail(ss))

(***************************************************************************)
(* The command-line surface of nanobanana.py.                              *)
(***************************************************************************)
AspectChoices ==
    {"1:1", "2:3", "3:2", "3:4", "4:3", "4:5", "5:4", "9:16", "16:9", "21:9",
     "1:4", "4:1", "1:8", "8:1"}
ResolutionChoices == {"0.5K", "1K", "2K", "4K"}
ThinkingChoices == {"minimal", "high"}
ProUnsupportedRatios == {"1:4", "4:1", "1:8", "8:1"}

\* The namespace argparse builds from a well-formed command line.
Namespace(v) ==
    [prompt       |-> "prompt",
     edit         |-> v.edit,
     reference    |-> v.reference,
     output       |-> v.output,
     aspect_ratio |-> v.aspect,
     resolution   |-> IF v.resolution = None THEN "1K" ELSE v.resolution,
     search       |-> v.search,
     image_search |-> v.image_search,
     pro          |-> v.pro,
     thinking     |-> v.thinking]

\* parser.error(): a value outside its choices, or -ref without a file.
ChoiceError(v) ==
    \/ v.aspect # None /\ v.aspect \notin AspectChoices
    \/ v.resolution # None /\ v.resolution \notin ResolutionChoices
    \/ v.thinking # None /\ v.thinking \notin ThinkingChoices
    \/ v.ref_given /\ v.reference = << >>

A == args[1]

Exit(code) == /\ status' = <<code>>
              /\ pc' = "exit"

Err(msg) == stderr' = Append(stderr, msg)
Out(msg) == stdout' = Append(stdout, msg)

(***************************************************************************)
(* main: parser.parse_args().  argparse handles flags left to right:      *)
(* -h prints the help and exits 0 when it is reached, a bad choice ends   *)
(* in parser.error() (usage on stderr, exit 2) when it is reached, and a  *)
(* missing positional is reported after all flags were handled.  The      *)
(* model keeps no flag order, so a command line with both -h and a bad    *)
(* choice may end either way.                                              *)
(***************************************************************************)
ParseHelp ==
    /\ pc = "parse" /\ prog = "nanobanana"
    /\ argv.help
    /\ Out([kind |-> "help"])
    /\ Exit(0)
    /\ UNCHANGED <<prog, argv, env, args, contents, config, requests, response,
                   output_path, saw_parts, idx, decoded, disk, stderr, returned>>

ParseError ==
    /\ pc = "parse" /\ prog = "nanobanana"
    /\ \/ ChoiceError(argv)
       \/ ~argv.help /\ ~argv.prompt
    /\ Err([kind |-> "usage"])
    /\ Exit(2)
    /\ UNCHANGED <<prog, argv, env, args, contents, config, requests, response,
                   output_path, saw_parts, idx, decoded, disk, stdout, returned>>

ParseArgs ==
    /\ pc = "parse" /\ prog = "nanobanana"
    /\ ~argv.help /\ argv.prompt /\ ~ChoiceError(argv)
    /\ args' = <<Namespace(argv)>>
    /\ pc' = "validate_pro"
    /\ UNCHANGED <<prog, argv, env, contents, config, requests, response,
                   output_path, saw_parts, idx, decoded, disk, stdout, stderr,
                   returned, status>>

(***************************************************************************)
(* main: the pro-model flag check.                                         *)
(***************************************************************************)
\* Mutant: the -i test is left out of the pro check.
InvalidFlagsWithoutImageSearch(a) ==
       (IF a.resolution = "0.5K" THEN << <<"-r", "0.5K">> >> ELSE << >>)
    \o (IF a.aspect_ratio \in ProUnsupportedRatios
        THEN << <<"-a", a.aspect_ratio>> >> ELSE << >>)
    \o (IF Truthy(a.thinking) THEN << <<"-t", a.thinking>> >> ELSE << >>)

InvalidFlags(a) ==
       (IF a.resolution = "0.5K" THEN << <<"-r", "0.5K">> >> ELSE << >>)
    \o (IF a.aspect_ratio \in ProUnsupportedRatios
        THEN << <<"-a", a.aspect_ratio>> >> ELSE << >>)
    \o (IF a.image_search THEN << <<"-i">> >> ELSE << >>)
    \o (IF Truthy(a.thinking) THEN << <<"-t", a.thinking>> >> ELSE << >>)

ProRejects(a) == a.pro /\ InvalidFlags(a) # << >>

ValidatePro ==
    /\ pc = "validate_pro"
    /\ IF ProRejects(A)
       THEN /\ Err([kind |-> "pro_unsupported", flags |-> InvalidFlags(A)])
            /\ Exit(1)
       ELSE /\ pc' = "validate_refs"
            /\ UNCHANGED <<stderr, status>>
    /\ UNCHANGED <<prog, argv, env, args, contents, config, requests, response,
                   output_path, saw_parts, idx, decoded, disk, stdout, returned>>

(***************************************************************************)
(* validate_reference_count(references, use_pro).  None and the empty     *)
(* list are both << >>: the code only tests the list's truth value.       *)
(***************************************************************************)
ModelLabel(use_pro) == IF use_pro THEN "Gemini 3 Pro" ELSE "Gemini 3.1 Flash"

HighFidelityHint(use_pro) ==
    IF use_pro THEN PRO_HIGH_FIDELITY_REFERENCE_HINT
               ELSE FLASH_HIGH_FIDELITY_REFERENCE_HINT

TooManyReferences(references) == Len(references) > MAX_REFERENCE_IMAGES

\* Mutant: the warning starts at the hint instead of above it.
WarnsReferencesFromHint(references, use_pro) ==
    Len(references) >= HighFidelityHint(use_pro)

WarnsReferences(references, use_pro) ==
    Len(references) > HighFidelityHint(use_pro)

ValidateReferenceCount ==
    /\ pc = "validate_refs"
    /\ LET refs == A.reference
           n == Len(refs)
       IN  IF refs = << >>
           THEN /\ pc' = "get_client"
                /\ UNCHANGED <<stderr, status>>
           ELSE IF TooManyReferences(refs)
           THEN /\ Err([kind |-> "too_many_references",
                        model |-> ModelLabel(A.pro),
                        max |-> MAX_REFERENCE_IMAGES, received |-> n])
                /\ Exit(1)
           ELSE IF WarnsReferences(refs, A.pro)
           THEN /\ Err([kind |-> "fidelity_warning",
                        model |-> ModelLabel(A.pro),
                        hint |-> HighFidelityHint(A.pro), received |-> n])
                /\ pc' = "get_client"
                /\ UNCHANGED status
           ELSE /\ pc' = "get_client"
                /\ UNCHANGED <<stderr, status>>
    /\ UNCHANGED <<prog, argv, env, args, contents, config, requests, response,
                   output_path, saw_parts, idx, decoded, disk, stdout, returned>>

(***************************************************************************)
(* generate_image / edit_image: get_client(), then the request contents.  *)
(***************************************************************************)
EditMode(a) == Truthy(a.edit)

\* The image files the run opens, in order: the edit source, then the
\* references.  0 names the edit source, i >= 1 the i-th reference.
ToLoad(a) ==
    (IF EditMode(a) THEN <<[kind |-> "edit_image", ref |-> 0]>> ELSE << >>)
    \o [i \in 1..Len(a.reference) |-> [kind |-> "ref_image", ref |-> a.reference[i]]]

\* Mutant: the request is built without opening the image files.
AfterLoadSkipsImages(a, cs) == "build"

AfterLoad(a, cs) == IF Len(cs) - 1 = Len(ToLoad(a)) THEN "build" ELSE "load"

\* Mutant: the key check is left out.
HasCredentialsUnchecked(e) == TRUE

\* get_client's test of GEMINI_API_KEY / GOOGLE_API_KEY.
HasCredentials(e) == e.key

GetClient ==
    /\ pc = "get_client"
    /\ IF ~HasCredentials(env)
       THEN /\ Err([kind |-> "no_api_key"])
            /\ Exit(1)
            /\ UNCHANGED contents
       ELSE /\ contents' = <<[kind |-> "text", ref |-> 0]>>
            /\ pc' = AfterLoad(A, contents')
            /\ UNCHANGED <<stderr, status>>
    /\ UNCHANGED <<prog, argv, env, args, config, requests, response,
                   output_path, saw_parts, idx, decoded, disk, stdout, returned>>

\* load_image(path): Image.open succeeds or raises; a raise is reported
\* and ends the run.
LoadImage ==
    /\ pc = "load"
    /\ LET next == ToLoad(A)[Len(contents)]
       IN  \E readable \in BOOLEAN :
             IF readable
             THEN /\ contents' = Append(contents, next)
                  /\ pc' = AfterLoad(A, contents')
                  /\ UNCHANGED <<stderr, status>>
             ELSE /\ Err([kind |-> "cannot_open", file |-> next])
                  /\ Exit(1)
                  /\ UNCHANGED contents
    /\ UNCHANGED <<prog, argv, env, args, config, requests, response,
                   output_path, saw_parts, idx, decoded, disk, stdout, returned>>

(***************************************************************************)
(* build_config: the keyword arguments of GenerateContentConfig.          *)
(***************************************************************************)
ImageConfig(aspect_ratio, size) ==
    IF Truthy(aspect_ratio)
    THEN [image_size |-> size, aspect_ratio |-> aspect_ratio]
    ELSE [image_size |-> size]

SearchTypes(grounded, image_search) ==
    LET web == IF grounded THEN [web_search |-> "WebSearch"] ELSE << >>
        img == IF image_search THEN [image_search |-> "ImageSearch"] ELSE << >>
    IN  web @@ img

ToolsEntry(grounded, image_search) ==
    IF grounded \/ image_search
    THEN [tools |-> <<[google_search |->
                         [search_types |-> SearchTypes(grounded, image_search)]]>>]
    ELSE << >>

ThinkingEntry(thinking_level) ==
    IF Truthy(thinking_level)
    THEN [thinking_config |-> [thinking_level |-> Capitalize(thinking_level),
                               include_thoughts |-> FALSE]]
    ELSE << >>

build_config(aspect_ratio, size, grounded, image_search, thinking_level) ==
    [response_modalities |-> <<"TEXT", "IMAGE">>,
     image_config |-> ImageConfig(aspect_ratio, size)]
    @@ ToolsEntry(grounded, image_search)
    @@ ThinkingEntry(thinking_level)

\* The aspect_ratio argument each flow hands to build_config.
AspectArgument(a) ==
    IF EditMode(a) THEN a.aspect_ratio
    ELSE IF Truthy(a.aspect_ratio) THEN a.aspect_ratio ELSE "1:1"

ModelName(use_pro) ==
    IF use_pro THEN "gemini-3-pro-image-preview"
               ELSE "gemini-3.1-flash-image-preview"

BuildConfig ==
    /\ pc = "build"
    /\ config' = <<build_config(AspectArgument(A), A.resolution, A.search,
                                A.image_search, A.thinking)>>
    /\ pc' = "call"
    /\ UNCHANGED <<prog, argv, env, args, contents, requests, response,
                   output_path, saw_parts, idx, decoded, disk, stdout, stderr,
                   returned, status>>

\* client.models.generate_content(...): one outbound request, one answer.
GenerateContent ==
    /\ pc = "call"
    /\ requests' = Append(requests, [model |-> ModelName(A.pro),
                                     contents |-> contents,
                                     config |-> config[1]])
    /\ response' = <<env.remote>>
    /\ pc' = "save"
    /\ UNCHANGED <<prog, argv, env, args, contents, config,
                   output_path, saw_parts, idx, decoded, disk, stdout, stderr,
                   returned, status>>

(***************************************************************************)
(* The response extractor of nanobanana.py.                                *)
(***************************************************************************)
\* Mutant: the candidates are never looked at.
iter_response_parts_top_only(r) == r.parts

\* iter_response_parts: the top-level parts when there are any, else the
\* parts of every candidate that has a content, in order.
iter_response_parts(r) ==
    IF r.parts # << >>
    THEN r.parts
    ELSE Flatten([i \in 1..Len(r.candidates) |->
                    IF r.candidates[i].has_content
                    THEN r.candidates[i].parts ELSE << >>])

RECURSIVE finish_reasons_of(_)
finish_reasons_of(cands) ==
    IF cands = << >> THEN << >>
    ELSE (IF Head(cands).finish_reason # None
          THEN <<Head(cands).finish_reason>> ELSE << >>)
         \o finish_reasons_of(Tail(cands))

finish_reasons(r) == finish_reasons_of(r.candidates)

DefaultPath(prefix, now) == [literal |-> prefix, stamp |-> now]
GivenPath(name) == [literal |-> name, stamp |-> 0]
NoPath == [literal |-> None, stamp |-> 0]

\* Mutant: the -o value is ignored.
OutputPathIgnoresOutput(output, prefix, now) == DefaultPath(prefix, now)

\* output or f"nanobanana_{now}.png"
OutputPath(output, prefix, now) ==
    IF Truthy(output) THEN GivenPath(output) ELSE DefaultPath(prefix, now)

Decodes(part) == part.inline_data = "png"

SaveImageBegin ==
    /\ pc = "save"
    /\ \E now \in 1..MaxClock :
         output_path' = OutputPath(A.output, "nanobanana", now)
    /\ saw_parts' = FALSE
    /\ pc' = "scan"
    /\ UNCHANGED <<prog, argv, env, args, contents, config, requests, response,
                   idx, decoded, disk, stdout, stderr, returned, status>>

\* Mutant: thought parts are treated like any other part.
SkippedNever(part) == FALSE

\* Which way one pass of the loop body goes for a part.
Skipped(part) == part.thought
TriesDecode(part) == ~Skipped(part) /\ part.inline_data # None

\* Mutant: a part that fails to decode ends the run.
DecodeFailureAborts(i) ==
    /\ Err([kind |-> "decode_warning", part |-> i])
    /\ Exit(1)
    /\ UNCHANGED <<disk, returned>>

\* The except branch around part.as_image(): warn, then continue.
DecodeFailure(i) ==
    /\ Err([kind |-> "decode_warning", part |-> i])
    /\ UNCHANGED <<disk, returned, pc, status>>

\* One pass of the loop body of save_image.
ScanPart ==
    /\ pc = "scan"
    /\ idx < Len(iter_response_parts(response[1]))
    /\ LET i == idx + 1
           part == iter_response_parts(response[1])[i]
           said == IF Truthy(part.text)
                   THEN Append(stdout, [kind |-> "gemini", text |-> part.text, part |-> i])
                   ELSE stdout
       IN  /\ saw_parts' = TRUE
           /\ idx' = i
           /\ IF TriesDecode(part)
              THEN /\ decoded' = Append(decoded, i)
                   /\ IF Decodes(part)
                      THEN /\ disk' = Append(disk, [path |-> output_path, part |-> i])
                           /\ stdout' = Append(said, [kind |-> "saved", path |-> output_path])
                           /\ returned' = <<output_path>>
                           /\ Exit(0)
                           /\ UNCHANGED stderr
                      ELSE /\ DecodeFailure(i)
                           /\ stdout' = said
              ELSE /\ stdout' = said
                   /\ UNCHANGED <<decoded, disk, stderr, returned, pc, status>>
    /\ UNCHANGED <<prog, argv, env, args, contents, config, requests, response,
                   output_path>>

\* The loop ran out of parts.
SaveImageFail ==
    /\ pc = "scan"
    /\ idx = Len(iter_response_parts(response[1]))
    /\ Err([kind |-> IF ~saw_parts THEN "no_content_parts" ELSE "no_image",
            reasons |-> finish_reasons(response[1])])
    /\ Exit(1)
    /\ UNCHANGED <<prog, argv, env, args, contents, config, requests, response,
                   output_path, saw_parts, idx, decoded, disk, stdout, returned>>

(***************************************************************************)
(* nbp.py: the generate-only tool.                                         *)
(***************************************************************************)
NbpAspectChoices == {"1:1", "16:9", "9:16", "4:3", "3:4", "21:9", "9:21"}
NbpSizeChoices == {"1K", "2K", "4K"}

NbpNamespace(v) ==
    [prompt       |-> "prompt",
     output       |-> v.output,
     aspect_ratio |-> IF v.aspect = None THEN "1:1" ELSE v.aspect,
     size         |-> IF v.size = None THEN "1K" ELSE v.size]

NbpChoiceError(v) ==
    \/ v.aspect # None /\ v.aspect \notin NbpAspectChoices
    \/ v.size # None /\ v.size \notin NbpSizeChoices

\* main of nbp.py: parser.parse_args(), with argparse's three outcomes.
NbpParse ==
    /\ pc = "parse" /\ prog = "nbp"
    /\ \/ /\ argv.help
          /\ Out([kind |-> "help"])
          /\ Exit(0)
          /\ UNCHANGED <<args, stderr>>
       \/ /\ NbpChoiceError(argv) \/ (~argv.help /\ ~argv.prompt)
          /\ Err([kind |-> "usage"])
          /\ Exit(2)
          /\ UNCHANGED <<args, stdout>>
       \/ /\ ~argv.help /\ argv.prompt /\ ~NbpChoiceError(argv)
          /\ args' = <<NbpNamespace(argv)>>
          /\ pc' = "nbp_key"
          /\ UNCHANGED <<stdout, stderr, status>>
    /\ UNCHANGED <<prog, argv, env, contents, config, requests, response,
                   output_path, saw_parts, idx, decoded, disk, returned>>

\* generate_image of nbp.py: the credentials check.
NbpCheckKey ==
    /\ pc = "nbp_key"
    /\ IF ~HasCredentials(env)
       THEN /\ Err([kind |-> "no_api_key"])
            /\ Exit(1)
       ELSE /\ pc' = "nbp_call"
            /\ UNCHANGED <<stderr, status>>
    /\ UNCHANGED <<prog, argv, env, args, contents, config, requests, response,
                   output_path, saw_parts, idx, decoded, disk, stdout, returned>>

NbpConfig(aspect_ratio, size) ==
    [response_modalities |-> <<"IMAGE">>,
     image_config |-> [aspect_ratio |-> aspect_ratio, image_size |-> size]]

\* generate_image of nbp.py: the request.
NbpGenerateContent ==
    /\ pc = "nbp_call"
    /\ contents' = <<[kind |-> "text", ref |-> 0]>>
    /\ config' = <<NbpConfig(A.aspect_ratio, A.size)>>
    /\ requests' = Append(requests, [model |-> "gemini-3-pro-image-preview",
                                     contents |-> contents',
                                     config |-> config'[1]])
    /\ response' = <<env.remote>>
    /\ pc' = "nbp_parts"
    /\ UNCHANGED <<prog, argv, env, args, output_path, saw_parts, idx, decoded,
                   disk, stdout, stderr, returned, status>>

\* response.candidates[0].content.parts can be evaluated and iterated.
NbpHasParts(r) == r.candidates # << >> /\ r.candidates[1].has_content

NbpParts(r) == r.candidates[1].parts

\* An exception nothing catches: the interpreter prints the traceback and
\* exits with status 1.
Uncaught == /\ Err([kind |-> "traceback"])
            /\ Exit(1)

\* The loop header of nbp.py's scan.
NbpOpenParts ==
    /\ pc = "nbp_parts"
    /\ IF NbpHasParts(response[1])
       THEN /\ pc' = "nbp_scan"
            /\ UNCHANGED <<stderr, status>>
       ELSE Uncaught
    /\ UNCHANGED <<prog, argv, env, args, contents, config, requests, response,
                   output_path, saw_parts, idx, decoded, disk, stdout, returned>>

\* Which parts nbp.py takes for the image.
NbpTakes(part) == part.inline_data # None

\* One pass of the loop body of nbp.py's scan.
NbpScanPart ==
    /\ pc = "nbp_scan"
    /\ idx < Len(NbpParts(response[1]))
    /\ LET i == idx + 1
           part == NbpParts(response[1])[i]
       IN  /\ idx' = i
           /\ IF NbpTakes(part)
              THEN /\ \E now \in 1..MaxClock :
                        output_path' = OutputPath(A.output, "nbp", now)
                   /\ decoded' = Append(decoded, i)
                   /\ IF Decodes(part)
                      THEN /\ disk' = Append(disk, [path |-> output_path', part |-> i])
                           /\ Out([kind |-> "saved", path |-> output_path'])
                           /\ returned' = <<output_path'>>
                           /\ Exit(0)
                           /\ UNCHANGED stderr
                      ELSE /\ Uncaught
                           /\ UNCHANGED <<disk, stdout, returned>>
              ELSE UNCHANGED <<output_path, decoded, disk, stdout, stderr,
                               returned, pc, status>>
    /\ UNCHANGED <<prog, argv, env, args, contents, config, requests, response,
                   saw_parts>>

\* The loop of nbp.py ran out of parts.
NbpFail ==
    /\ pc = "nbp_scan"
    /\ idx = Len(NbpParts(response[1]))
    /\ Err([kind |-> "no_image", reasons |-> << >>])
    /\ Exit(1)
    /\ UNCHANGED <<prog, argv, env, args, contents, config, requests, response,
                   output_path, saw_parts, idx, decoded, disk, stdout, returned>>

(***************************************************************************)
(* The inputs of an invocation.                                            *)
(***************************************************************************)
Parts == [text : {None, "caption"}, thought : BOOLEAN,
          inline_data : {None, "png", "junk"}]

Part(text, thought, data) ==
    [text |-> text, thought |-> thought, inline_data |-> data]

SilentParts == {p \in Parts : p.text = None}

Candidate(has, parts, reason) ==
    [has_content |-> has, parts |-> parts, finish_reason |-> reason]

\* The contents a candidate carries in the candidate-shaped responses.
CandContents ==
    {<< >>,
     <<Part("caption", FALSE, None)>>,
     <<Part(None, TRUE, "png")>>,
     <<Part(None, FALSE, "png")>>,
     <<Part(None, FALSE, "junk"), Part("caption", FALSE, "png")>>}

Candidates ==
    {Candidate(TRUE, ps, r) : ps \in CandContents, r \in {None, "STOP"}}
    \cup {Candidate(FALSE, << >>, r) : r \in {None, "SAFETY"}}

Response(parts, candidates) == [parts |-> parts, candidates |-> candidates]

\* Responses whose top-level part list is what the extractor scans.
TopResponses ==
    {Response(ps, cs) :
        ps \in SeqUpTo(Parts, MaxParts),
        cs \in {<< >>, <<Candidate(FALSE, << >>, "STOP")>>,
                <<Candidate(TRUE, <<Part(None, FALSE, "png")>>, None)>>}}

\* Responses that carry their parts in the candidates.
CandResponses ==
    {Response(<< >>, cs) : cs \in SeqUpTo(Candidates, MaxCands)}

\* Responses whose first candidate carries a part list of any shape.
FirstCandResponses ==
    {Response(<< >>, <<Candidate(TRUE, ps, "STOP")>>) :
        ps \in SeqUpTo(SilentParts, MaxSilentParts)}

GoodResponse ==
    Response(<<Part("caption", FALSE, "png")>>,
             <<Candidate(TRUE, <<Part("caption", FALSE, "png")>>, "STOP")>>)

FewResponses ==
    {GoodResponse,
     Response(<< >>, << >>),
     Response(<< >>, <<Candidate(TRUE, <<Part(None, TRUE, "png"),
                                         Part(None, FALSE, "png")>>, "STOP")>>),
     Response(<<Part(None, FALSE, "junk"), Part(None, FALSE, "png")>>, << >>)}

References(n) == [i \in 1..n |-> i]

\* h: -h, m: a prompt is there, e: -e, n: files after -ref, o: -o, a: -a,
\* r: -r, s: -s, i: -i, p: -p, t: -t.
Argv(h, m, e, n, o, a, r, s, i, p, t) ==
    [help |-> h, prompt |-> m, edit |-> e,
     ref_given |-> n > 0, reference |-> References(n),
     output |-> o, aspect |-> a, resolution |-> r,
     search |-> s, image_search |-> i, pro |-> p, thinking |-> t]

NbpArgv(help, prompt, output, aspect, size) ==
    [help |-> help, prompt |-> prompt, output |-> output, aspect |-> aspect,
     size |-> size]

\* Every combination of the flags that shape validation and the config.
FlagRuns ==
    {[prog |-> "nanobanana",
      argv |-> Argv(FALSE, TRUE, e, 0, None, a, r, s, i, p, t),
      env |-> [key |-> TRUE, remote |-> GoodResponse]] :
        e \in {None, "in.png"},
        a \in AspectChoices \cup {None, "7:5"},
        r \in ResolutionChoices \cup {None, "8K"},
        s \in BOOLEAN, i \in BOOLEAN, p \in BOOLEAN,
        t \in ThinkingChoices \cup {None, "low"}}

\* Every reference count, with and without the other causes of an early exit.
ReferenceRuns ==
    {[prog |-> "nanobanana",
      argv |-> Argv(FALSE, TRUE, e, n, None, None, None, FALSE, i, p, None),
      env |-> [key |-> k, remote |-> GoodResponse]] :
        e \in {None, "", "in.png"}, n \in 0..MaxRefs, i \in BOOLEAN,
        p \in BOOLEAN, k \in BOOLEAN}

\* Every response shape, through nanobanana.py.
ResponseRuns ==
    {[prog |-> "nanobanana",
      argv |-> Argv(FALSE, TRUE, None, 0, "out.png", None, None, FALSE, FALSE,
                    FALSE, None),
      env |-> [key |-> TRUE, remote |-> r]] :
        r \in TopResponses \cup CandResponses \cup FirstCandResponses}

\* Every way of naming the output, through both tools.
OutputRuns ==
    {[prog |-> "nanobanana",
      argv |-> Argv(FALSE, TRUE, None, 0, o, None, None, FALSE, FALSE, p, None),
      env |-> [key |-> TRUE, remote |-> r]] :
        o \in {None, "", "out.png"}, p \in BOOLEAN, r \in FewResponses}
    \cup
    {[prog |-> "nbp",
      argv |-> NbpArgv(FALSE, TRUE, o, None, None),
      env |-> [key |-> TRUE, remote |-> r]] :
        o \in {None, "", "out.png"},
        r \in FewResponses \cup FirstCandResponses}

\* Command lines argparse ends, and runs without credentials.
UsageRuns ==
    {[prog |-> "nanobanana",
      argv |-> [Argv(h, m, None, 0, None, a, None, FALSE, FALSE, FALSE, None)
                  EXCEPT !.ref_given = g],
      env |-> [key |-> k, remote |-> GoodResponse]] :
        h \in BOOLEAN, m \in BOOLEAN, g \in BOOLEAN, k \in BOOLEAN,
        a \in {None, "16:9", "7:5"}}
    \cup
    {[prog |-> "nbp",
      argv |-> NbpArgv(h, m, None, a, z),
      env |-> [key |-> k, remote |-> GoodResponse]] :
        h \in BOOLEAN, m \in BOOLEAN, k \in BOOLEAN,
        a \in NbpAspectChoices \cup {None, "2:3"},
        z \in NbpSizeChoices \cup {None, "0.5K"}}

Runs == FlagRuns \cup ReferenceRuns \cup ResponseRuns \cup OutputRuns \cup UsageRuns

Init ==
    /\ \E run \in Runs :
         /\ prog = run.prog
         /\ argv = run.argv
         /\ env = run.env
    /\ pc = "parse"
    /\ args = << >>
    /\ contents = << >>
    /\ config = << >>
    /\ requests = << >>
    /\ response = << >>
    /\ output_path = NoPath
    /\ saw_parts = FALSE
    /\ idx = 0
    /\ decoded = << >>
    /\ disk = << >>
    /\ stdout = << >>
    /\ stderr = << >>
    /\ returned = << >>
    /\ status = << >>

Next ==
    \/ ParseHelp
    \/ ParseError
    \/ ParseArgs
    \/ ValidatePro
    \/ ValidateReferenceCount
    \/ GetClient
    \/ LoadImage
    \/ BuildConfig
    \/ GenerateContent
    \/ SaveImageBegin
    \/ ScanPart
    \/ SaveImageFail
    \/ NbpParse
    \/ NbpCheckKey
    \/ NbpGenerateContent
    \/ NbpOpenParts
    \/ NbpScanPart
    \/ NbpFail

Spec == Init /\ [][Next]_vars

(***************************************************************************)
(* Vocabulary of the properties.                                           *)
(***************************************************************************)
Range(q) == {q[i] : i \in DOMAIN q}
Kinds(log) == {log[i].kind : i \in DOMAIN log}
Last(q) == q[Len(q)]
Count(b) == IF b THEN 1 ELSE 0

Nano == prog = "nanobanana"
Parsed == args # << >>
Exited == pc = "exit"
Answered == response # << >>

\* The parts nanobanana.py scans, and the good ones among them.
Scanned == iter_response_parts(response[1])
Qualifies(part) == ~part.thought /\ part.inline_data = "png"
FirstQualifying(ps) ==
    IF \E i \in DOMAIN ps : Qualifies(ps[i])
    THEN CHOOSE i \in DOMAIN ps :
           Qualifies(ps[i]) /\ \A j \in 1..(i - 1) : ~Qualifies(ps[j])
    ELSE 0

\* C1's condition, in the claim's words.
OffendsPro(a) ==
    /\ a.pro
    /\ \/ a.resolution = "0.5K"
       \/ a.aspect_ratio \in {"1:4", "4:1", "1:8", "8:1"}
       \/ a.image_search
       \/ a.thinking # None

(***************************************************************************)
(* C1.  The pro check of main: with -p and at least one of -r 0.5K, an    *)
(* aspect ratio among 1:4, 4:1, 1:8, 8:1, -i, or any -t, the step exits   *)
(* with status 1 and prints one message that names exactly the offending  *)
(* flags; otherwise the step prints nothing, does not exit and hands over *)
(* to the reference-count check.                                           *)
(***************************************************************************)
C1_ProCheckStep ==
    pc = "validate_pro" /\ pc' # pc =>
      IF OffendsPro(A)
      THEN /\ status' = <<1>>
           /\ Len(stderr') = 1
           /\ stderr'[1].kind = "pro_unsupported"
           /\ LET named == Range(stderr'[1].flags)
              IN  /\ <<"-r", "0.5K">> \in named <=> A.resolution = "0.5K"
                  /\ <<"-a", A.aspect_ratio>> \in named
                       <=> A.aspect_ratio \in {"1:4", "4:1", "1:8", "8:1"}
                  /\ <<"-i">> \in named <=> A.image_search
                  /\ <<"-t", A.thinking>> \in named <=> A.thinking # None
                  /\ Len(stderr'[1].flags) =
                          Count(A.resolution = "0.5K")
                        + Count(A.aspect_ratio \in {"1:4", "4:1", "1:8", "8:1"})
                        + Count(A.image_search) + Count(A.thinking # None)
      ELSE /\ status' = << >>
           /\ stderr' = stderr
           /\ pc' = "validate_refs"

\* C1: every step of a run satisfies the pro-check property above.
C1_ProCheck == [][C1_ProCheckStep]_vars

\* A pro run rejected for all four reasons at once.
C1_Witness ==
    /\ Nano /\ Parsed /\ Exited
    /\ A.pro /\ A.resolution = "0.5K" /\ A.aspect_ratio = "8:1"
    /\ A.image_search /\ A.thinking = "high"
    /\ status = <<1>>
    /\ stderr = <<[kind |-> "pro_unsupported",
                   flags |-> << <<"-r", "0.5K">>, <<"-a", "8:1">>, <<"-i">>,
                                <<"-t", "high">> >>]>>

(***************************************************************************)
(* C2.  validate_reference_count: more than 14 references exit with       *)
(* status 1; more than the hint (10, or 6 with -p) and at most 14 print a *)
(* warning and the run goes on to generation; any smaller count, and no   *)
(* references at all, go on with nothing printed.                          *)
(***************************************************************************)
C2_ReferenceStep ==
    pc = "validate_refs" /\ pc' # pc =>
      LET n == Len(A.reference)
          hint == IF A.pro THEN 6 ELSE 10
      IN  IF n > 14
          THEN /\ status' = <<1>> /\ pc' = "exit"
               /\ Last(stderr').kind = "too_many_references"
               /\ Last(stderr').received = n
          ELSE IF n > hint
          THEN /\ status' = << >> /\ pc' = "get_client"
               /\ stderr' = Append(stderr, Last(stderr'))
               /\ Last(stderr').kind = "fidelity_warning"
               /\ Last(stderr').hint = hint
               /\ Last(stderr').received = n
          ELSE /\ status' = << >> /\ pc' = "get_client"
               /\ stderr' = stderr

\* C2: every step of a run satisfies the reference-count property above.
C2_ReferenceCount == [][C2_ReferenceStep]_vars

\* Eleven references on the default model: warned, and the request went out.
C2_Witness ==
    /\ Nano /\ Parsed
    /\ ~A.pro /\ Len(A.reference) = 11
    /\ "fidelity_warning" \in Kinds(stderr)
    /\ requests # << >>

\* The finish reasons of a response, as the claims describe them.
ReasonsOf(r) ==
    SelectSeq([i \in 1..Len(r.candidates) |-> r.candidates[i].finish_reason],
              LAMBDA x : x # None)

\* No top-level part and no candidate whose content has a part.
ZeroParts(r) ==
    /\ r.parts = << >>
    /\ \A i \in 1..Len(r.candidates) :
         ~r.candidates[i].has_content \/ r.candidates[i].parts = << >>

(***************************************************************************)
(* C3.  save_image of nanobanana.py: a response with zero content parts   *)
(* ends with the "no content parts" error, carrying the finish reasons of *)
(* the candidates that have one, exit status 1 and no file; and that      *)
(* error is printed for no other response and never after a part was      *)
(* scanned.                                                                *)
(***************************************************************************)
C3_NoContentParts ==
    Nano /\ Answered =>
      /\ Exited /\ ZeroParts(response[1]) =>
           /\ status = <<1>>
           /\ disk = << >>
           /\ Last(stderr) = [kind |-> "no_content_parts",
                              reasons |-> ReasonsOf(response[1])]
      /\ "no_content_parts" \in Kinds(stderr) =>
           /\ ZeroParts(response[1])
           /\ idx = 0 /\ ~saw_parts

\* A contentless response that carried a finish reason.
C3_Witness ==
    /\ Nano /\ Answered /\ Exited
    /\ ZeroParts(response[1])
    /\ Len(response[1].candidates) = 2
    /\ stderr = <<[kind |-> "no_content_parts", reasons |-> <<"SAFETY">>]>>
    /\ status = <<1>>

(***************************************************************************)
(* C4.  save_image of nanobanana.py never saves a thought-flagged part:   *)
(* when the response has parts and every part with inline data is         *)
(* thought-flagged, no file is written and the run ends with the "no      *)
(* image generated" error and exit status 1.                               *)
(***************************************************************************)
C4_ThoughtNeverSaved ==
    Nano /\ Answered =>
      /\ \A k \in DOMAIN disk : ~Scanned[disk[k].part].thought
      /\ (/\ Scanned # << >>
          /\ \A i \in DOMAIN Scanned :
               Scanned[i].inline_data # None => Scanned[i].thought)
         => /\ disk = << >>
            /\ returned = << >>
            /\ Exited => /\ status = <<1>>
                         /\ Last(stderr).kind = "no_image"

\* A response of two thought images and nothing else, scanned to the end.
C4_Witness ==
    /\ Nano /\ Answered /\ Exited
    /\ Len(Scanned) = 2
    /\ \A i \in DOMAIN Scanned : Scanned[i].thought /\ Scanned[i].inline_data = "png"
    /\ idx = 2 /\ disk = << >> /\ status = <<1>>
    /\ Last(stderr).kind = "no_image"

(***************************************************************************)
(* C6.  save_image of nanobanana.py: a decode failure on a non-thought    *)
(* inline-data part prints a warning and the scan goes on, so a later     *)
(* decodable non-thought image is saved and the run succeeds; the run     *)
(* fails with "no image generated" and exit status 1 only when no         *)
(* non-thought inline-data part decodes.                                   *)
(***************************************************************************)
C6_DecodeFailureRecoverable ==
    Nano /\ Answered /\ pc \in {"scan", "exit"} =>
      LET first == FirstQualifying(Scanned)
          warned == {stderr[k].part : k \in {j \in DOMAIN stderr :
                                               stderr[j].kind = "decode_warning"}}
      IN  /\ \A i \in 1..idx :
                 (~Scanned[i].thought /\ Scanned[i].inline_data = "junk")
                   <=> i \in warned
          /\ Exited =>
               IF first # 0
               THEN /\ status = <<0>>
                    /\ disk = <<[path |-> output_path, part |-> first]>>
               ELSE /\ status = <<1>>
                    /\ disk = << >>
                    /\ Scanned # << >> => Last(stderr).kind = "no_image"

\* An undecodable image first, then the image that is saved.
C6_Witness ==
    /\ Nano /\ Answered /\ Exited
    /\ Len(Scanned) = 3
    /\ ~Scanned[1].thought /\ Scanned[1].inline_data = "junk"
    /\ ~Scanned[2].thought /\ Scanned[2].inline_data = "junk"
    /\ Kinds(stderr) = {"decode_warning"} /\ Len(stderr) = 2
    /\ Len(disk) = 1 /\ disk[1].part = 3
    /\ status = <<0>>

\* The part list the running tool scans.
ScanOrder ==
    IF Nano THEN Scanned
    ELSE IF NbpHasParts(response[1]) THEN NbpParts(response[1]) ELSE << >>

(***************************************************************************)
(* C5.  At most one image file is saved per invocation, whatever the      *)
(* parts of the response: the saved part is the first in scan order that  *)
(* is not thought-flagged, carries inline data and decodes; the scan      *)
(* stops there, so no later part is printed, decoded or saved.            *)
(***************************************************************************)
C5_FirstQualifyingWins ==
    Answered =>
      /\ Len(disk) <= 1
      /\ disk # << >> =>
           /\ disk[1].part = FirstQualifying(ScanOrder)
           /\ idx = disk[1].part
           /\ \A k \in DOMAIN decoded : decoded[k] <= disk[1].part
           /\ \A k \in DOMAIN stdout :
                stdout[k].kind = "gemini" => stdout[k].part <= disk[1].part

\* The same statement of nanobanana.py alone.
C5_FirstQualifyingWinsNano == Nano => C5_FirstQualifyingWins

(***************************************************************************)
(* C7.  build_config of nanobanana.py: the config has exactly the fields  *)
(* the flags imply.  Modalities are TEXT and IMAGE; the image size is the *)
(* resolution; a search tool is there iff -s or -i, with web_search iff   *)
(* -s and image_search iff -i; a thinking config is there iff -t, with    *)
(* the level capitalized and include_thoughts false; the aspect ratio is  *)
(* the -a value when given, 1:1 in generate mode without -a, absent in    *)
(* edit mode without -a.                                                   *)
(***************************************************************************)
C7_ConfigFields ==
    Nano /\ config # << >> =>
      LET c == config[1]
          edits == "edit_image" \in Kinds(contents)
      IN  /\ DOMAIN c = {"response_modalities", "image_config"}
                        \cup (IF A.search \/ A.image_search THEN {"tools"} ELSE {})
                        \cup (IF A.thinking # None THEN {"thinking_config"} ELSE {})
          /\ c.response_modalities = <<"TEXT", "IMAGE">>
          /\ c.image_config.image_size = A.resolution
          /\ A.search \/ A.image_search =>
               /\ Len(c.tools) = 1
               /\ DOMAIN c.tools[1] = {"google_search"}
               /\ DOMAIN c.tools[1].google_search.search_types =
                     (IF A.search THEN {"web_search"} ELSE {})
                     \cup (IF A.image_search THEN {"image_search"} ELSE {})
          /\ A.thinking # None =>
               /\ c.thinking_config.thinking_level =
                     (IF A.thinking = "minimal" THEN "Minimal" ELSE "High")
               /\ c.thinking_config.include_thoughts = FALSE
          /\ IF A.aspect_ratio # None
             THEN c.image_config = [image_size |-> A.resolution,
                                    aspect_ratio |-> A.aspect_ratio]
             ELSE IF edits
             THEN c.image_config = [image_size |-> A.resolution]
             ELSE c.image_config = [image_size |-> A.resolution,
                                    aspect_ratio |-> "1:1"]

\* An edit without -a, grounded by image search only, thinking minimal.
C7_Witness ==
    /\ Nano /\ config # << >>
    /\ "edit_image" \in Kinds(contents)
    /\ A.aspect_ratio = None /\ A.resolution = "4K"
    /\ ~A.search /\ A.image_search /\ A.thinking = "minimal"
    /\ config[1] =
         [response_modalities |-> <<"TEXT", "IMAGE">>,
          image_config |-> [image_size |-> "4K"],
          tools |-> <<[google_search |->
                        [search_types |-> [image_search |-> "ImageSearch"]]]>>,
          thinking_config |-> [thinking_level |-> "Minimal",
                               include_thoughts |-> FALSE]]

Prefix == IF Nano THEN "nanobanana" ELSE "nbp"
IsDefaultName(path) == path.literal = Prefix /\ path.stamp \in 1..MaxClock
IsGivenName(path, name) == path = [literal |-> name, stamp |-> 0]
PrintedPaths ==
    {stdout[k].path : k \in {j \in DOMAIN stdout : stdout[j].kind = "saved"}}

TooMany == Len(A.reference) > 14

(***************************************************************************)
(* C9, as claimed.  Every terminating invocation exits with status 0 or   *)
(* 1: 0 only when an image file was saved, 1 with a message on standard   *)
(* error for every validation or generation failure (a value outside an   *)
(* enum, a pro flag combination, more than 14 references, missing         *)
(* credentials, an unreadable image, an empty response, no image).        *)
(***************************************************************************)
C9_ExitStatusAsClaimed ==
    Nano /\ Exited =>
      /\ status \in {<<0>>, <<1>>}
      /\ status = <<0>> => disk # << >>
      /\ status = <<1>> => stderr # << >>
      /\ disk = << >> => status = <<1>> /\ stderr # << >>

FailureKinds ==
    {"pro_unsupported", "too_many_references", "no_api_key", "cannot_open",
     "no_content_parts", "no_image"}

(***************************************************************************)
(* C9, amended.  Every terminating invocation exits with status 0, 1 or   *)
(* 2.  Status 2, with argparse's usage message on standard error, is the  *)
(* exit for a command line argparse rejects (a value outside an enum, a   *)
(* missing prompt, -ref without a file).  Status 0 is the exit only when  *)
(* an image file was saved or the help text was asked for.  Status 1,     *)
(* with a message on standard error, is the exit for every other failure: *)
(* a pro flag combination, more than 14 references, missing credentials,  *)
(* an unreadable image, an empty response, no image.                       *)
(***************************************************************************)
C9_ExitStatus ==
    Nano /\ Exited =>
      /\ status \in {<<0>>, <<1>>, <<2>>}
      /\ status = <<2>> <=> (~Parsed /\ stderr = <<[kind |-> "usage"]>>)
      /\ status = <<2>> =>
           \/ argv.aspect \notin AspectChoices \cup {None}
           \/ argv.resolution \notin ResolutionChoices \cup {None}
           \/ argv.thinking \notin ThinkingChoices \cup {None}
           \/ ~argv.prompt
           \/ argv.ref_given /\ argv.reference = << >>
      /\ status = <<0>> =>
           \/ Len(disk) = 1 /\ Parsed
           \/ argv.help /\ ~Parsed /\ stdout = <<[kind |-> "help"]>>
      /\ status = <<1>> <=> (Parsed /\ disk = << >>)
      /\ status = <<1>> =>
           /\ stderr # << >> /\ Last(stderr).kind \in FailureKinds
           /\ OffendsPro(A) <=> Last(stderr).kind = "pro_unsupported"
           /\ ~OffendsPro(A) /\ TooMany
                <=> Last(stderr).kind = "too_many_references"
           /\ ~OffendsPro(A) /\ ~TooMany /\ ~env.key
                <=> Last(stderr).kind = "no_api_key"
           /\ Answered /\ ZeroParts(response[1])
                <=> Last(stderr).kind = "no_content_parts"
           /\ Answered /\ ~ZeroParts(response[1])
                <=> Last(stderr).kind = "no_image"
      /\ Parsed /\ (OffendsPro(A) \/ TooMany \/ ~env.key
                    \/ "cannot_open" \in Kinds(stderr)
                    \/ (Answered /\ FirstQualifying(Scanned) = 0))
           => status = <<1>>

\* A run without credentials, ended with status 1 and the key message.
C9_Witness ==
    /\ Nano /\ Exited /\ Parsed
    /\ ~env.key
    /\ status = <<1>>
    /\ stderr = <<[kind |-> "no_api_key"]>>

(***************************************************************************)
(* C10.  The steps of an invocation of nanobanana.py come in the order    *)
(* parse, pro check and reference count, credentials and image loading,   *)
(* config, remote call, save.  The remote API is called at most once, and *)
(* only after both validations passed, the credentials were found and     *)
(* every edit and reference image was loaded; a run that fails any of     *)
(* these exits without a request and without an output file.              *)
(***************************************************************************)
C10_CallOrder ==
    Nano =>
      /\ Len(requests) <= 1
      /\ requests # << >> =>
           /\ Parsed /\ ~OffendsPro(A) /\ ~TooMany
           /\ env.key
           /\ Len(requests[1].contents) =
                1 + Count(A.edit \notin {None, ""}) + Len(A.reference)
           /\ \A i \in 1..Len(A.reference) :
                [kind |-> "ref_image", ref |-> A.reference[i]]
                  \in Range(requests[1].contents)
           /\ config # << >> /\ requests[1].config = config[1]
      /\ config # << >> => contents # << >>
      /\ contents # << >> => Parsed /\ pc \notin {"validate_pro", "validate_refs"}
      /\ Answered => requests # << >>
      /\ disk # << >> => Answered
      /\ Kinds(stderr) \cap {"usage", "pro_unsupported", "too_many_references",
                             "no_api_key", "cannot_open"} # {}
           => Exited /\ requests = << >> /\ disk = << >>

\* An edit with two references: one request, after all three images loaded.
C10_Witness ==
    /\ Nano /\ Exited /\ Parsed /\ status = <<0>>
    /\ A.edit = "in.png" /\ Len(A.reference) = 2
    /\ Len(requests) = 1 /\ Len(requests[1].contents) = 4
    /\ Len(disk) = 1

=============================================================================
